---- MODULE Spec2Model ----
(***************************************************************************)
(* Browser authentication front end: password login, Google OAuth          *)
(* (authorization-code flow through the backend) and Supabase OAuth        *)
(* (implicit flow), with the session kept in localStorage/sessionStorage.  *)
(*                                                                         *)
(* One browser tab is modelled.  A handler that awaits is split at its     *)
(* awaits: the code between two awaits runs without interruption (the UI   *)
(* thread), a network call is a request record that the environment        *)
(* answers, and the continuation consumes the answer.                      *)
(***************************************************************************)
EXTENDS Integers, Sequences, FiniteSets, TLC

\* ---------------------------------------------------------------- values

Null == "null"

\* access tokens a backend or provider may issue
Tokens == {"tokA", "tokB"}
\* anti-forgery state values the backend may issue
States == {"s1", "s2"}
\* authorization codes
Codes == {"c1"}

NoReq == [kind |-> "none"]
\* a call that has returned to its caller
DoneReq == [kind |-> "done"]
NoSession == [kind |-> "none"]
NoUser == [kind |-> "none"]

\* Truthiness of a JavaScript string-or-null value: null and "" are falsy.
Truthy(v) == v # Null /\ v # ""

\* ---------------------------------------------------------------- state

VARIABLES
  localStorage,     \* persistent storage: token, supabase_session, supabase_token
  sessionStorage,   \* tab-local storage: google_oauth_state
  page,             \* the route component mounted in the tab
  search,           \* query parameters of the tab's location
  hash,             \* fragment of the tab's location
  auth,             \* AuthProvider state: isAuthenticated, user, loading
  gc,               \* GoogleCallback component state: error, loading, effect
  gcReq,            \* the exchange request of GoogleCallback.handleCallback
  igl,              \* initiateGoogleLogin / isGoogleOAuthAvailable request
  reg,              \* Register component state for the Google button
  env,              \* build-time environment: which Supabase settings are defined
  sc,               \* SupabaseCallback component state: error, loading, effect
  eh,               \* SupabaseErrorHandler: whether its effect has still to run
  sbReq,            \* the implicit-flow handler in flight, at its current await
  lo,               \* logout (async version) in flight, at its current await
  lg,               \* login (POST /token) in flight
  sd,               \* the call of the supabaseDirect service in flight
  sdResult,         \* how the last call of the supabaseDirect service ended
  events,           \* storage events queued for this tab's listeners
  gu                \* Dashboard's call of getCurrentUser: due, in flight, or how it ended

vars == <<localStorage, sessionStorage, page, search, hash, auth, gc, gcReq, igl, reg,
          env, sc, eh, sbReq, lo, lg, sd, sdResult, events, gu>>

\* the state of the service calls that no callback makes, and the storage events
directVars == <<sd, sdResult, events, gu>>

\* ---------------------------------------------------------------- storage

GetItem(store, key) == store[key]

SetItem(store, key, value) == [store EXCEPT ![key] = value]

\* getItem of an absent key returns null; the value kept under supabase_session
\* is the JSON text of a session record, the others are plain strings.
AbsentItem(key) == IF key = "supabase_session" THEN NoSession ELSE Null

RemoveItem(store, key) == [store EXCEPT ![key] = AbsentItem(key)]

\* JSON.stringify(session): the text of the record, field by field.
JSONstringify(session) ==
  [kind |-> "json",
   access_token |-> session.access_token,
   refresh_token |-> session.refresh_token,
   expires_in |-> session.expires_in,
   token_type |-> session.token_type,
   expires_at |-> session.expires_at]

EmptyLocalStorage ==
  [token |-> Null, supabase_session |-> NoSession, supabase_token |-> Null]

EmptySessionStorage == [google_oauth_state |-> Null]

\* ---------------------------------------------------------------- AuthProvider

\* useState(false), useState(null), useState(true)
AuthMounted == [isAuthenticated |-> FALSE, user |-> NoUser, loading |-> TRUE]

\* The predicate checkAuthStatus and handleStorageChange compute from storage.
StoredAuth(store) ==
  Truthy(GetItem(store, "token")) \/ GetItem(store, "supabase_session") # NoSession

\* CheckAuthStatusResult that fills user with what it read from storage.
CheckAuthStatusResult_KeepsToken(a, store) ==
  IF StoredAuth(store)
  THEN [a EXCEPT !.isAuthenticated = TRUE, !.loading = FALSE,
                 !.user = [kind |-> "user", token |-> GetItem(store, "token")]]
  ELSE [a EXCEPT !.isAuthenticated = FALSE, !.user = NoUser, !.loading = FALSE]

\* checkAuthStatus, the mount effect of AuthProvider.
CheckAuthStatusResult(a, store) ==
  IF StoredAuth(store)
  THEN [a EXCEPT !.isAuthenticated = TRUE, !.loading = FALSE]
  ELSE [a EXCEPT !.isAuthenticated = FALSE, !.user = NoUser, !.loading = FALSE]

\* AuthLogin showing the loading state again.
AuthLogin_SetsLoading(a, userData) ==
  [a EXCEPT !.isAuthenticated = TRUE, !.user = userData, !.loading = TRUE]

\* login(userData) of the context
AuthLogin(a, userData) == [a EXCEPT !.isAuthenticated = TRUE, !.user = userData]

\* ---------------------------------------------------------------- GoogleCallback

NoSearch == [code |-> Null, state |-> Null, error |-> Null, error_description |-> Null]
NoHash == [kind |-> "none"]

\* FailedWith leaving the effect to run again.
FailedWith_RunsAgain(text) == [error |-> text, loading |-> FALSE, effect |-> TRUE]

\* FailedWith without setLoading(false).
FailedWith_KeepsLoading(text) == [error |-> text, loading |-> TRUE, effect |-> FALSE]

\* setError(text); setLoading(false); return -- the end of a failed run of
\* handleCallback, in GoogleCallback and in SupabaseCallback alike.
FailedWith(text) == [error |-> text, loading |-> FALSE, effect |-> FALSE]

\* useState(''), useState(true); effect: handleCallback has still to run
GCMounted == [error |-> "", loading |-> TRUE, effect |-> TRUE]
GCUnmounted == [error |-> "", loading |-> TRUE, effect |-> FALSE]

ErrProvider == "Google OAuth error"
ErrMissingCode == "No authorization code received from Google"
ErrMissingState == "No state parameter received from Google"
ErrMissingStoredState == "No stored state found. Please try logging in again."
ErrStateMismatch == "Invalid state parameter. Possible CSRF attack."
ErrNotConfigured ==
  "Google OAuth is not configured on the server. Please contact the administrator."
ErrExchangeFallback == "Failed to authenticate with Google"

\* GCParse with the check of code placed before the check of error.
GCParse_CodeFirst(code, state, error) ==
  IF ~Truthy(code) THEN ErrMissingCode
  ELSE IF Truthy(error) THEN ErrProvider
  ELSE IF ~Truthy(state) THEN ErrMissingState
  ELSE "ok"

\* The checks on the URL parameters, in the order of the code.
GCParse(code, state, error) ==
  IF Truthy(error) THEN ErrProvider
  ELSE IF ~Truthy(code) THEN ErrMissingCode
  ELSE IF ~Truthy(state) THEN ErrMissingState
  ELSE "ok"

\* GCValidate without the comparison: only the presence of a stored state is checked.
GCValidate_NoCompare(state, storedState) ==
  IF ~Truthy(storedState) THEN ErrMissingStoredState ELSE "ok"

\* GCValidate with the comparison inverted.
GCValidate_Inverted(state, storedState) ==
  IF ~Truthy(storedState) THEN ErrMissingStoredState
  ELSE IF state = storedState THEN ErrStateMismatch
  ELSE "ok"

\* GCValidate without the check that a state is stored.
GCValidate_NoMissingCheck(state, storedState) ==
  IF state # storedState THEN ErrStateMismatch ELSE "ok"

\* The checks of the received state against the stored one.
GCValidate(state, storedState) ==
  IF ~Truthy(storedState) THEN ErrMissingStoredState
  ELSE IF state # storedState THEN ErrStateMismatch
  ELSE "ok"

\* GCConsume without the removal: the stored state outlives its validation.
GCConsume_Keeps(store) == store

\* sessionStorage.removeItem('google_oauth_state') after a successful validation.
GCConsume(store) == RemoveItem(store, "google_oauth_state")

\* Answers of the backend to POST /google/callback.
Pending == [status |-> "pending"]
ExchangeResponses ==
  { [status |-> "ok", access_token |-> t] : t \in Tokens \cup {Null, ""} }
    \cup { [status |-> "error", message |-> m] : m \in {"not configured", "other"} }

\* HGCStore with a catch that removes the token when the POST failed.
HGCStore_ClearsOnError(store, resp) ==
  IF resp.status = "ok" /\ Truthy(resp.access_token)
  THEN SetItem(store, "token", resp.access_token)
  ELSE IF resp.status = "error" THEN RemoveItem(store, "token")
  ELSE store

\* handleGoogleCallback after the POST returned: the token is stored only when
\* the answer carries a truthy access_token.
HGCStore(store, resp) ==
  IF resp.status = "ok" /\ Truthy(resp.access_token)
  THEN SetItem(store, "token", resp.access_token)
  ELSE store

\* handleGoogleCallback throws on a failed POST, and returns response.data otherwise.
HGCThrows(resp) == resp.status = "error"

\* GCCatchText without the fallback: a thrown string has no .message.
GCCatchText_NoFallback(resp) ==
  IF resp.message = "not configured" THEN ErrNotConfigured ELSE ""

\* What GoogleCallback's catch shows: err.message || 'Failed to authenticate with
\* Google'.  handleGoogleCallback throws an Error for "not configured"/"disabled"
\* and the bare message string (which has no .message) otherwise.
GCCatchText(resp) ==
  IF resp.message = "not configured" THEN ErrNotConfigured ELSE ErrExchangeFallback

\* What Register.handleGoogleLogin's catch shows: err.message || 'Failed to
\* initiate Google login'.
ErrInitiateFallback == "Failed to initiate Google login"
RegCatchText(resp) ==
  IF resp.message = "not configured" THEN ErrNotConfigured ELSE ErrInitiateFallback

\* ---------------------------------------------------------------- implicit flow

\* Fragments a callback address may carry: window.location.hash is '' (none),
\* or a list of parameters.  A parameter that is not in the fragment reads as
\* null; access_token may also be there with an empty value.
Fragment(a, r, e, t) ==
  [kind |-> "hash", access_token |-> a, refresh_token |-> r, expires_in |-> e,
   token_type |-> t]

Fragments ==
  { NoHash,
    Fragment("tokA", "ref1", "7200", "bearer"),
    Fragment("tokB", Null, Null, Null),
    Fragment(Null, "ref1", "7200", "bearer"),
    Fragment("", Null, Null, Null) }

\* !hash || !accessToken
NoAccessTokenIn(fragment) == fragment = NoHash \/ ~Truthy(fragment.access_token)

\* The characters of the expires_in texts used here; parseInt(null) parses the
\* text "null".
Chars(str) ==
  CASE str = "7200" -> <<"7", "2", "0", "0">>
    [] str = "0" -> <<"0">>
    [] str = "00" -> <<"0", "0">>
    [] str = "12abc" -> <<"1", "2", "a", "b", "c">>
    [] str = "abc" -> <<"a", "b", "c">>
    [] str = "-5" -> <<"-", "5">>
    [] str = " 60" -> <<" ", "6", "0">>
    [] str = Null -> <<"n", "u", "l", "l">>
    [] OTHER -> <<>>

DigitValue(c) ==
  CASE c = "0" -> 0 [] c = "1" -> 1 [] c = "2" -> 2 [] c = "3" -> 3 [] c = "4" -> 4
    [] c = "5" -> 5 [] c = "6" -> 6 [] c = "7" -> 7 [] c = "8" -> 8 [] c = "9" -> 9
    [] OTHER -> -1

NaN == [nan |-> TRUE, val |-> 0]

\* The first position of chars, from i on, that holds no white space.
RECURSIVE SkipSpace(_, _)
SkipSpace(chars, i) ==
  IF i <= Len(chars) /\ chars[i] = " " THEN SkipSpace(chars, i + 1) ELSE i

\* The decimal digits of chars from position i on, up to the first character
\* that is no digit: NaN when there is none.
RECURSIVE ParseDigits(_, _, _, _)
ParseDigits(chars, i, acc, seen) ==
  IF i <= Len(chars) /\ DigitValue(chars[i]) >= 0
  THEN ParseDigits(chars, i + 1, 10 * acc + DigitValue(chars[i]), TRUE)
  ELSE IF seen THEN [nan |-> FALSE, val |-> acc] ELSE NaN

\* parseInt(str): leading white space is skipped, a sign is read, then the
\* longest run of decimal digits; what follows is ignored.  The result is a
\* number, or NaN.
ParseInt(str) ==
  LET chars == Chars(str)
      first == SkipSpace(chars, 1)
      signed == first <= Len(chars) /\ chars[first] \in {"-", "+"}
      digits == ParseDigits(chars, IF signed THEN first + 1 ELSE first, 0, FALSE)
  IN IF digits.nan THEN NaN
     ELSE IF signed /\ chars[first] = "-" THEN [nan |-> FALSE, val |-> 0 - digits.val]
     ELSE digits

DefaultExpiresIn == 3600

\* ExpiresInOrDefault with ?? in the place of ||: only NaN gives the default.
ExpiresInOrDefault_ZeroKept(str) ==
  LET n == ParseInt(str) IN IF n.nan THEN DefaultExpiresIn ELSE n.val

\* parseInt(expiresIn) || 3600: NaN and 0 are falsy.
ExpiresInOrDefault(str) ==
  LET n == ParseInt(str) IN IF n.nan \/ n.val = 0 THEN DefaultExpiresIn ELSE n.val

\* tokenType || 'bearer'
TokenTypeOrDefault(t) == IF Truthy(t) THEN t ELSE "bearer"

\* The session object both implicit handlers build from the fragment; now is
\* Date.now() / 1000.
BuildSession(f, now) ==
  [access_token |-> f.access_token,
   refresh_token |-> f.refresh_token,
   expires_in |-> ExpiresInOrDefault(f.expires_in),
   token_type |-> TokenTypeOrDefault(f.token_type),
   expires_at |-> now + ExpiresInOrDefault(f.expires_in)]

MaxClock == 1
Times == 1000 .. (1000 + MaxClock)

ErrSupabaseProvider == "Supabase OAuth error"
ErrNoOAuthData == "No OAuth data found in URL"
ErrNoAccessToken == "No access token found in URL"
ErrConfigMissing == "Supabase configuration is missing"
ErrNoUser == "No user found after setting session"
ErrUserLookup == "invalid JWT"

\* SupabaseCallback.handleCallback's checks before its first await.
SCParse(error, fragment) ==
  IF Truthy(error) THEN ErrSupabaseProvider
  ELSE IF fragment = NoHash THEN ErrNoOAuthData
  ELSE IF ~Truthy(fragment.access_token) THEN ErrNoAccessToken
  ELSE "ok"

\* SupabaseErrorHandler.handleOAuthCallback's checks before its first await:
\* leave for /login on a bad_oauth_state error, return silently when there is
\* no fragment or no access token, go on otherwise.
EHParse(error, description, fragment) ==
  IF error = "invalid_request" /\ description = "bad_oauth_state" THEN "redirect"
  ELSE IF fragment = NoHash THEN "return"
  ELSE IF ~Truthy(fragment.access_token) THEN "return"
  ELSE "ok"

\* What SupabaseErrorHandler renders: the loading card when there are no error
\* parameters and the fragment contains the text access_token, the error card
\* otherwise.
EHView(error, description, fragment) ==
  IF ~Truthy(error) /\ ~Truthy(description)
     /\ fragment # NoHash /\ fragment.access_token # Null
  THEN "loading"
  ELSE "error"

\* Answers of the provider to getUser().
Users ==
  { [kind |-> "user", id |-> "u1", email |-> "ann@example.com", full_name |-> Null],
    [kind |-> "user", id |-> "u2", email |-> Null, full_name |-> Null] }

GetUserResponses ==
  { [status |-> "ok", user |-> u] : u \in Users \cup {NoUser} }
    \cup { [status |-> "error", user |-> NoUser] }

\* The checks on getUser's answer: the message thrown, or "ok".
GetUserFailure(resp) ==
  IF resp.status = "error" THEN ErrUserLookup
  ELSE IF resp.user = NoUser THEN ErrNoUser
  ELSE "ok"

\* SBPersist that keeps a session already stored instead of overwriting it.
SBPersist_KeepsFirst(store, session, failure) ==
  IF failure = "ok" /\ GetItem(store, "supabase_session") = NoSession
  THEN SetItem(SetItem(store, "supabase_session", JSONstringify(session)),
               "token", session.access_token)
  ELSE store

\* SBPersist with the two setItem calls placed before the checks.
SBPersist_BeforeChecks(store, session, failure) ==
  SetItem(SetItem(store, "supabase_session", JSONstringify(session)),
          "token", session.access_token)

\* The two setItem calls of the implicit handlers; they are reached only when
\* no check on getUser's answer threw.
SBPersist(store, session, failure) ==
  IF failure = "ok"
  THEN SetItem(SetItem(store, "supabase_session", JSONstringify(session)),
               "token", session.access_token)
  ELSE store

\* email.split('@')[0]
LocalPart(email) == IF email = "ann@example.com" THEN "ann" ELSE email

\* The object SupabaseCallback passes to the context's login.
SCUserData(user) ==
  [kind |-> "user",
   username |-> IF Truthy(user.full_name) THEN user.full_name
                ELSE IF Truthy(user.email) THEN LocalPart(user.email)
                ELSE "Supabase User",
   email |-> user.email,
   auth_method |-> "supabase",
   supabase_id |-> user.id,
   supabase_email |-> user.email]

\* useState(''), useState(true); effect: handleCallback has still to run
SCMounted == [error |-> "", loading |-> TRUE, effect |-> TRUE]
SCUnmounted == [error |-> "", loading |-> TRUE, effect |-> FALSE]

\* ---------------------------------------------------------------- logout, login

\* logout of frontend/src/services/authService.js
LogoutSync(store) == RemoveItem(store, "token")

\* logout of the async authService: what is removed once it is past the
\* sign-out, and in its catch.
LogoutRemoveBoth(store) == RemoveItem(RemoveItem(store, "supabase_session"), "token")

\* Answers of the provider to signOut(): done, an error object, or a rejection.
SignOutResponses == { [status |-> "ok"], [status |-> "error"], [status |-> "throws"] }

LoIdle == [kind |-> "none", resp |-> Pending]
LoDone == [kind |-> "done", resp |-> Pending]

\* Answers of the backend to POST /token.
TokenResponses ==
  { [status |-> "ok", access_token |-> t] : t \in Tokens \cup {Null, ""} }
    \cup { [status |-> "error", message |-> "other"] }

\* LoginStore testing a field the answer does not have: nothing is stored.
LoginStore_WrongField(store, resp) == store

\* LoginStore without the test of access_token.
LoginStore_Unchecked(store, resp) ==
  IF resp.status = "ok" THEN SetItem(store, "token", resp.access_token) ELSE store

\* login after the POST returned: the token is stored only when the answer
\* carries a truthy access_token.
LoginStore(store, resp) ==
  IF resp.status = "ok" /\ Truthy(resp.access_token)
  THEN SetItem(store, "token", resp.access_token)
  ELSE store

\* ---------------------------------------------------------------- page loads

IglIdle == [kind |-> "none", resp |-> Pending]
RegMounted == [error |-> "", googleLoading |-> FALSE]
NoSbReq == [kind |-> "none"]
SdIdle == [kind |-> "none", resp |-> Pending]
SdNoResult == [kind |-> "none"]
GuIdle == [kind |-> "none"]

\* A full page load of the application at a route: every component is
\* constructed anew and whatever was running in the old page is gone.
\* localStorage and sessionStorage survive.
LoadPage(route, query, fragment) ==
  /\ page' = route
  /\ search' = query
  /\ hash' = fragment
  /\ auth' = AuthMounted
  /\ gc' = IF route = "google" THEN GCMounted ELSE GCUnmounted
  /\ sc' = IF route = "supabase" THEN SCMounted ELSE SCUnmounted
  /\ eh' = (route = "root")
  /\ reg' = RegMounted
  /\ gcReq' = NoReq
  /\ igl' = IglIdle
  /\ sbReq' = NoSbReq
  /\ lo' = LoIdle
  /\ lg' = NoReq
  /\ sd' = SdIdle
  /\ sdResult' = SdNoResult
  /\ events' = <<>>
  /\ gu' = GuIdle

\* navigate(route) of react-router: the route component changes inside the
\* running page; calls already in flight keep running.
NavigateTo(route) ==
  /\ page' = route
  /\ search' = NoSearch
  /\ hash' = NoHash
  /\ gc' = GCUnmounted
  /\ sc' = SCUnmounted
  /\ eh' = FALSE
  /\ reg' = RegMounted

\* ---------------------------------------------------------------- actions

Init ==
  /\ localStorage = EmptyLocalStorage
  /\ sessionStorage = EmptySessionStorage
  /\ page = "login"
  /\ search = NoSearch
  /\ hash = NoHash
  /\ auth = AuthMounted
  /\ gc = GCUnmounted
  /\ gcReq = NoReq
  /\ igl = IglIdle
  /\ reg = RegMounted
  /\ env \in [nextPublic : BOOLEAN, reactApp : BOOLEAN, authService : {"sync", "async"}]
  /\ sc = SCUnmounted
  /\ eh = FALSE
  /\ sbReq = NoSbReq
  /\ lo = LoIdle
  /\ lg = NoReq
  /\ sd = SdIdle
  /\ sdResult = SdNoResult
  /\ events = <<>>
  /\ gu = GuIdle

\* AuthProvider's mount effect.
CheckAuthStatus ==
  /\ auth.loading
  /\ auth' = CheckAuthStatusResult(auth, localStorage)
  /\ UNCHANGED <<localStorage, sessionStorage, page, search, hash, gc, gcReq, igl, reg,
                 env, sc, eh, sbReq, lo, lg>>
  /\ UNCHANGED <<directVars, events>>

\* A link of the application to /login or /register (the Navbar's links, the
\* "Back to Login" button of the callback views).
NavbarLink ==
  /\ page # "external"
  /\ \E route \in {"login", "register"} :
       /\ route # page
       /\ NavigateTo(route)
  /\ UNCHANGED <<localStorage, sessionStorage, auth, gcReq, igl, env, sbReq, lo, lg>>
  /\ UNCHANGED <<directVars, events>>

\* Register.handleGoogleLogin up to the await inside getGoogleAuthUrl.
RegisterGoogleLogin ==
  /\ page = "register"
  /\ ~reg.googleLoading
  /\ igl = IglIdle
  /\ reg' = [error |-> "", googleLoading |-> TRUE]
  /\ igl' = [kind |-> "initiate", resp |-> Pending]
  /\ UNCHANGED <<localStorage, sessionStorage, page, search, hash, auth, gc, gcReq,
                 env, sc, eh, sbReq, lo, lg>>
  /\ UNCHANGED <<directVars, events>>

\* isGoogleOAuthAvailable up to the await inside getGoogleAuthUrl.
ProbeGoogleOAuth ==
  /\ page \in {"login", "register"}
  /\ igl = IglIdle
  /\ igl' = [kind |-> "probe", resp |-> Pending]
  /\ UNCHANGED <<localStorage, sessionStorage, page, search, hash, auth, gc, gcReq, reg,
                 env, sc, eh, sbReq, lo, lg>>
  /\ UNCHANGED <<directVars, events>>

\* Answers of the backend to GET /google/authorize.
AuthorizeResponses ==
  { [status |-> "ok", state |-> st] : st \in States }
    \cup { [status |-> "error", message |-> m] : m \in {"not configured", "other"} }

BackendAnswersAuthorize ==
  /\ igl.kind # "none"
  /\ igl.resp = Pending
  /\ \E r \in AuthorizeResponses : igl' = [igl EXCEPT !.resp = r]
  /\ UNCHANGED <<localStorage, sessionStorage, page, search, hash, auth, gc, gcReq, reg,
                 env, sc, eh, sbReq, lo, lg>>
  /\ UNCHANGED <<directVars, events>>

\* IGLStore that keeps a state already stored.
IGLStore_KeepsEarlier(store, authData) ==
  IF GetItem(store, "google_oauth_state") # Null THEN store
  ELSE SetItem(store, "google_oauth_state", authData.state)

\* sessionStorage.setItem('google_oauth_state', authData.state).
IGLStore(store, authData) == SetItem(store, "google_oauth_state", authData.state)

\* initiateGoogleLogin after getGoogleAuthUrl returned: the state is stored and
\* the browser leaves for the authorization URL; on a failure the error is
\* rethrown to Register.handleGoogleLogin, which shows it.
InitiateGoogleLoginReturn ==
  /\ igl.kind = "initiate"
  /\ igl.resp # Pending
  /\ IF igl.resp.status = "ok"
     THEN /\ sessionStorage' = IGLStore(sessionStorage, igl.resp)
          /\ LoadPage("external", NoSearch, NoHash)
     ELSE /\ reg' = IF page = "register"
                    THEN [error |-> RegCatchText(igl.resp), googleLoading |-> FALSE]
                    ELSE reg
          /\ igl' = IglIdle
          /\ UNCHANGED <<sessionStorage, page, search, hash, gc, gcReq, auth,
                         sc, eh, sbReq, lo, lg, sd, sdResult, events, gu>>
  /\ UNCHANGED <<localStorage, env>>

\* isGoogleOAuthAvailable after getGoogleAuthUrl returned: true or false.
ProbeGoogleOAuthReturn ==
  /\ igl.kind = "probe"
  /\ igl.resp # Pending
  /\ igl' = IglIdle
  /\ UNCHANGED <<localStorage, sessionStorage, page, search, hash, auth, gc, gcReq, reg,
                 env, sc, eh, sbReq, lo, lg>>
  /\ UNCHANGED <<directVars, events>>

\* The browser arrives at /auth/google/callback: the provider's redirect, or any
\* link to that address (a forged one included).
CallbackCodes == Codes \cup {Null}
CallbackStates == States \cup {Null}
CallbackErrors == {Null, "access_denied"}

ArriveGoogleCallback ==
  /\ \E code \in CallbackCodes, state \in CallbackStates, error \in CallbackErrors :
       LoadPage("google",
                [code |-> code, state |-> state, error |-> error,
                 error_description |-> Null],
                NoHash)
  /\ UNCHANGED <<localStorage, sessionStorage, env>>

\* GoogleCallback.handleCallback from its start to its first await, or to the
\* return that ends it.
GCHandleCallback ==
  /\ page = "google"
  /\ gc.effect
  /\ LET parsed == GCParse(search.code, search.state, search.error)
         storedState == GetItem(sessionStorage, "google_oauth_state")
         valid == GCValidate(search.state, storedState)
     IN IF parsed # "ok"
        THEN /\ gc' = FailedWith(parsed)
             /\ UNCHANGED <<sessionStorage, gcReq>>
        ELSE IF valid # "ok"
        THEN /\ gc' = FailedWith(valid)
             /\ UNCHANGED <<sessionStorage, gcReq>>
        ELSE /\ sessionStorage' = GCConsume(sessionStorage)
             /\ gcReq' = [kind |-> "exchange", code |-> search.code, state |-> search.state,
                          storedState |-> storedState, resp |-> Pending]
             /\ gc' = [gc EXCEPT !.effect = FALSE]
  /\ UNCHANGED <<localStorage, page, search, hash, auth, igl, reg, env, sc, eh, sbReq, lo, lg>>
  /\ UNCHANGED <<directVars, events>>

BackendAnswersExchange ==
  /\ gcReq.kind = "exchange"
  /\ gcReq.resp = Pending
  /\ \E r \in ExchangeResponses : gcReq' = [gcReq EXCEPT !.resp = r]
  /\ UNCHANGED <<localStorage, sessionStorage, page, search, hash, auth, gc, igl, reg,
                 env, sc, eh, sbReq, lo, lg>>
  /\ UNCHANGED <<directVars, events>>

\* handleGoogleCallback after the POST returned, and the rest of
\* GoogleCallback.handleCallback: navigate('/dashboard'), or the catch.
GCExchangeReturn ==
  /\ gcReq.kind = "exchange"
  /\ gcReq.resp # Pending
  /\ localStorage' = HGCStore(localStorage, gcReq.resp)
  /\ IF HGCThrows(gcReq.resp)
     THEN /\ gc' = IF page = "google"
                   THEN [FailedWith(GCCatchText(gcReq.resp)) EXCEPT !.effect = gc.effect]
                   ELSE gc
          /\ UNCHANGED <<page, search, hash, reg, sc, eh>>
     ELSE NavigateTo("dashboard")
  /\ gcReq' = DoneReq
  /\ UNCHANGED <<sessionStorage, auth, igl, env, sbReq, lo, lg>>
  /\ UNCHANGED <<directVars, events>>

\* React runs the effect of the mounted GoogleCallback again: its dependencies
\* are [navigate, location], and the location object is a new one after every
\* navigation to the address shown.  The earlier run has reached its await or
\* has returned; component state is kept.
GCEffectRerun ==
  /\ page = "google"
  /\ ~gc.effect
  /\ gc' = [gc EXCEPT !.effect = TRUE]
  /\ UNCHANGED <<localStorage, sessionStorage, page, search, hash, auth, gcReq, igl, reg,
                 env, sc, eh, sbReq, lo, lg>>
  /\ UNCHANGED <<directVars, events>>

\* ---------------------------------------------------------------- implicit flow actions

SbErrors ==
  { [error |-> Null, error_description |-> Null],
    [error |-> "access_denied", error_description |-> Null],
    [error |-> "invalid_request", error_description |-> "bad_oauth_state"] }

SbSearch(e) ==
  [code |-> Null, state |-> Null, error |-> e.error,
   error_description |-> e.error_description]

\* The browser arrives at /auth/supabase/callback.
ArriveSupabaseCallback ==
  /\ \E e \in SbErrors, f \in Fragments : LoadPage("supabase", SbSearch(e), f)
  /\ UNCHANGED <<localStorage, sessionStorage, env>>

\* The browser arrives at the root route.
ArriveRoot ==
  /\ \E e \in SbErrors, f \in Fragments : LoadPage("root", SbSearch(e), f)
  /\ UNCHANGED <<localStorage, sessionStorage, env>>

\* SupabaseCallback.handleCallback from its start to the await of the import,
\* or to the return that ends it.
SCHandleCallback ==
  /\ page = "supabase"
  /\ sc.effect
  /\ LET parsed == SCParse(search.error, hash)
     IN IF parsed # "ok"
        THEN /\ sc' = FailedWith(parsed)
             /\ UNCHANGED sbReq
        ELSE /\ sc' = [sc EXCEPT !.effect = FALSE]
             /\ sbReq' = [kind |-> "import", by |-> "sc", fragment |-> hash]
  /\ UNCHANGED <<localStorage, sessionStorage, page, search, hash, auth, gc, gcReq, igl,
                 reg, env, eh, lo, lg>>
  /\ UNCHANGED <<directVars, events>>

\* The catch of SupabaseCallback.handleCallback: setError, setLoading(false).
SCCatch(message) ==
  /\ sc' = IF page = "supabase"
           THEN FailedWith(message)
           ELSE sc
  /\ sbReq' = DoneReq
  /\ UNCHANGED <<page, search, hash, auth, gc, eh, reg, gcReq, igl, lo, lg>>

\* The catch of SupabaseErrorHandler.handleOAuthCallback: the browser loads
\* /login?error=oauth_error&message=...
EHCatch == LoadPage("login", SbSearch([error |-> "oauth_error", error_description |-> Null]),
                    NoHash)

\* SupabaseCallback.handleCallback after the import: the configuration check,
\* the session object, the call of setSession.
SCAfterImport ==
  /\ sbReq.kind = "import"
  /\ sbReq.by = "sc"
  /\ IF ~env.nextPublic
     THEN SCCatch(ErrConfigMissing)
     ELSE /\ \E now \in Times :
               sbReq' = [kind |-> "setSession", by |-> "sc",
                         session |-> BuildSession(sbReq.fragment, now)]
          /\ UNCHANGED <<page, search, hash, auth, gc, sc, eh, reg, gcReq, igl, lo, lg>>
  /\ UNCHANGED <<localStorage, sessionStorage, env>>
  /\ UNCHANGED <<directVars, events>>

\* SupabaseErrorHandler.handleOAuthCallback after the import.
EHAfterImport ==
  /\ sbReq.kind = "import"
  /\ sbReq.by = "eh"
  /\ IF ~env.reactApp
     THEN EHCatch
     ELSE /\ \E now \in Times :
               sbReq' = [kind |-> "setSession", by |-> "eh",
                         session |-> BuildSession(sbReq.fragment, now)]
          /\ UNCHANGED <<page, search, hash, auth, gc, sc, eh, reg, gcReq, igl, lo, lg,
                         sd, sdResult, events, gu>>
  /\ UNCHANGED <<localStorage, sessionStorage, env>>

\* setSession resolved (its result is not looked at); getUser is called.
SBAfterSetSession ==
  /\ sbReq.kind = "setSession"
  /\ sbReq' = [kind |-> "getUser", by |-> sbReq.by, session |-> sbReq.session,
               resp |-> Pending]
  /\ UNCHANGED <<localStorage, sessionStorage, page, search, hash, auth, gc, gcReq, igl,
                 reg, env, sc, eh, lo, lg>>
  /\ UNCHANGED <<directVars, events>>

ProviderAnswersGetUser ==
  /\ sbReq.kind = "getUser"
  /\ sbReq.resp = Pending
  /\ \E r \in GetUserResponses : sbReq' = [sbReq EXCEPT !.resp = r]
  /\ UNCHANGED <<localStorage, sessionStorage, page, search, hash, auth, gc, gcReq, igl,
                 reg, env, sc, eh, lo, lg>>
  /\ UNCHANGED <<directVars, events>>

\* SupabaseCallback.handleCallback after getUser: the checks, the two setItem,
\* the context's login, navigate('/dashboard'); or the catch.
SCAfterGetUser ==
  /\ sbReq.kind = "getUser"
  /\ sbReq.by = "sc"
  /\ sbReq.resp # Pending
  /\ LET failure == GetUserFailure(sbReq.resp)
     IN /\ localStorage' = SBPersist(localStorage, sbReq.session, failure)
        /\ IF failure # "ok"
           THEN SCCatch(failure)
           ELSE /\ auth' = AuthLogin(auth, SCUserData(sbReq.resp.user))
                /\ NavigateTo("dashboard")
                /\ sbReq' = DoneReq
                /\ UNCHANGED <<gcReq, igl, lo, lg>>
  /\ UNCHANGED <<sessionStorage, env>>
  /\ UNCHANGED <<directVars, events>>

\* SupabaseErrorHandler.handleOAuthCallback after getUser: the checks, the two
\* setItem, replaceState, and the load of /dashboard; or the catch.
EHAfterGetUser ==
  /\ sbReq.kind = "getUser"
  /\ sbReq.by = "eh"
  /\ sbReq.resp # Pending
  /\ LET failure == GetUserFailure(sbReq.resp)
     IN /\ localStorage' = SBPersist(localStorage, sbReq.session, failure)
        /\ IF failure # "ok"
           THEN EHCatch
           ELSE LoadPage("dashboard", NoSearch, NoHash)
  /\ UNCHANGED <<sessionStorage, env>>

\* SupabaseErrorHandler.handleOAuthCallback from its start to the await of the
\* import, or to the return that ends it.
EHHandleCallback ==
  /\ page = "root"
  /\ eh
  /\ LET parsed == EHParse(search.error, search.error_description, hash)
     IN IF parsed = "redirect"
        THEN LoadPage("login",
                      SbSearch([error |-> "supabase_oauth_state_error",
                                error_description |-> Null]),
                      NoHash)
        ELSE /\ eh' = FALSE
             /\ sbReq' = IF parsed = "ok"
                         THEN [kind |-> "import", by |-> "eh", fragment |-> hash]
                         ELSE sbReq
             /\ UNCHANGED <<page, search, hash, auth, gc, sc, reg, gcReq, igl, lo, lg,
                            sd, sdResult, events, gu>>
  /\ UNCHANGED <<localStorage, sessionStorage, env>>

\* ---------------------------------------------------------------- logout and login actions

\* Navbar.handleLogout with the logout of frontend/src/services/authService.js:
\* the token is removed, then navigate('/login').
NavbarHandleLogoutSync ==
  /\ env.authService = "sync"
  /\ page # "external"
  /\ GetItem(localStorage, "token") # Null
  /\ localStorage' = LogoutSync(localStorage)
  /\ lo' = LoDone
  /\ NavigateTo("login")
  /\ UNCHANGED <<sessionStorage, auth, gcReq, igl, env, sbReq, lg>>
  /\ UNCHANGED <<directVars, events>>

\* Navbar.handleLogout with the async logout: logout() runs to its first await
\* (or to its end when there is no Supabase session), then navigate('/login').
NavbarHandleLogoutAsync ==
  /\ env.authService = "async"
  /\ page # "external"
  /\ GetItem(localStorage, "token") # Null
  /\ lo.kind \in {"none", "done"}
  /\ IF GetItem(localStorage, "supabase_session") # NoSession
     THEN /\ lo' = [kind |-> "import", resp |-> Pending]
          /\ UNCHANGED localStorage
     ELSE /\ localStorage' = RemoveItem(localStorage, "token")
          /\ lo' = LoDone
  /\ NavigateTo("login")
  /\ UNCHANGED <<sessionStorage, auth, gcReq, igl, env, sbReq, lg>>
  /\ UNCHANGED <<directVars, events>>

\* logout after the import: signOut is called when the Supabase settings are
\* defined; otherwise both keys are removed and logout returns.
LogoutAfterImport ==
  /\ lo.kind = "import"
  /\ IF env.nextPublic
     THEN /\ lo' = [kind |-> "signOut", resp |-> Pending]
          /\ UNCHANGED localStorage
     ELSE /\ localStorage' = LogoutRemoveBoth(localStorage)
          /\ lo' = LoDone
  /\ UNCHANGED <<sessionStorage, page, search, hash, auth, gc, gcReq, igl, reg, env, sc,
                 eh, sbReq, lg>>
  /\ UNCHANGED <<directVars, events>>

ProviderAnswersSignOut ==
  /\ lo.kind = "signOut"
  /\ lo.resp = Pending
  /\ \E r \in SignOutResponses : lo' = [lo EXCEPT !.resp = r]
  /\ UNCHANGED <<localStorage, sessionStorage, page, search, hash, auth, gc, gcReq, igl,
                 reg, env, sc, eh, sbReq, lg>>
  /\ UNCHANGED <<directVars, events>>

\* logout after signOut: an error is logged; both keys are removed (in the try
\* or, after a rejection, in the catch); logout returns true.
LogoutAfterSignOut ==
  /\ lo.kind = "signOut"
  /\ lo.resp # Pending
  /\ localStorage' = LogoutRemoveBoth(localStorage)
  /\ lo' = LoDone
  /\ UNCHANGED <<sessionStorage, page, search, hash, auth, gc, gcReq, igl, reg, env, sc,
                 eh, sbReq, lg>>
  /\ UNCHANGED <<directVars, events>>

\* The Login component is not among the sources.  Its submit handler calls
\* login(username, password) and, when login resolved with a token, the
\* context's login with the display data of the user.
LoginUserData ==
  [kind |-> "user", username |-> "ann", email |-> Null, auth_method |-> "local",
   supabase_id |-> Null, supabase_email |-> Null]

LoginSubmitNotify(a, resp) ==
  IF resp.status = "ok" /\ Truthy(resp.access_token) THEN AuthLogin(a, LoginUserData) ELSE a

\* login up to the await of the POST.
LoginSubmit ==
  /\ page = "login"
  /\ lg.kind \in {"none", "done"}
  /\ lg' = [kind |-> "token", resp |-> Pending]
  /\ UNCHANGED <<localStorage, sessionStorage, page, search, hash, auth, gc, gcReq, igl,
                 reg, env, sc, eh, sbReq, lo>>
  /\ UNCHANGED <<directVars, events>>

BackendAnswersToken ==
  /\ lg.kind = "token"
  /\ lg.resp = Pending
  /\ \E r \in TokenResponses : lg' = [lg EXCEPT !.resp = r]
  /\ UNCHANGED <<localStorage, sessionStorage, page, search, hash, auth, gc, gcReq, igl,
                 reg, env, sc, eh, sbReq, lo>>
  /\ UNCHANGED <<directVars, events>>

\* login after the POST returned, and the submit handler's continuation.
LoginReturn ==
  /\ lg.kind = "token"
  /\ lg.resp # Pending
  /\ localStorage' = LoginStore(localStorage, lg.resp)
  /\ auth' = LoginSubmitNotify(auth, lg.resp)
  /\ lg' = DoneReq
  /\ UNCHANGED <<sessionStorage, page, search, hash, gc, gcReq, igl, reg, env, sc, eh,
                 sbReq, lo>>
  /\ UNCHANGED <<directVars, events>>

\* ---------------------------------------------------------------- supabaseDirect

\* Answers of the provider to the calls of supabaseDirect.
SignInResponses == { [status |-> "ok"], [status |-> "error"] }
GetSessionResponses ==
  { [status |-> "ok", access_token |-> t] : t \in Tokens \cup {Null} }
    \cup { [status |-> "error", access_token |-> Null] }
DirectSignOutResponses == { [status |-> "ok"], [status |-> "error"] }
DirectGetUserResponses ==
  { [status |-> "ok", user |-> u] : u \in Users } \cup { [status |-> "error", user |-> NoUser] }

SdResolved(v) == [kind |-> "resolved", of |-> sd.kind, value |-> v]
SdRejected == [kind |-> "rejected", of |-> sd.kind]

\* A function of the service is called; it runs to its await.
DirectCall ==
  /\ page # "external"
  /\ sd = SdIdle
  /\ \E k \in {"signInWithGoogle", "handleSupabaseCallback", "signOut", "getCurrentUser"} :
       sd' = [kind |-> k, resp |-> Pending]
  /\ sdResult' = SdNoResult
  /\ UNCHANGED <<localStorage, sessionStorage, page, search, hash, auth, gc, gcReq, igl,
                 reg, env, sc, eh, sbReq, lo, lg, events, gu>>

ProviderAnswersDirect ==
  /\ sd.kind # "none"
  /\ sd.resp = Pending
  /\ \E r \in (CASE sd.kind = "signInWithGoogle" -> SignInResponses
                 [] sd.kind = "handleSupabaseCallback" -> GetSessionResponses
                 [] sd.kind = "signOut" -> DirectSignOutResponses
                 [] OTHER -> DirectGetUserResponses) :
       sd' = [sd EXCEPT !.resp = r]
  /\ UNCHANGED <<localStorage, sessionStorage, page, search, hash, auth, gc, gcReq, igl,
                 reg, env, sc, eh, sbReq, lo, lg, sdResult, events, gu>>

\* signInWithGoogle after signInWithOAuth: an error is rethrown; otherwise the
\* browser is on its way to the provider.
DirectSignInReturn ==
  /\ sd.kind = "signInWithGoogle"
  /\ sd.resp # Pending
  /\ IF sd.resp.status = "error"
     THEN /\ sdResult' = SdRejected
          /\ sd' = SdIdle
          /\ UNCHANGED <<page, search, hash, auth, gc, gcReq, igl, reg, sc, eh, sbReq, lo, lg, events, gu>>
     ELSE LoadPage("external", NoSearch, NoHash)
  /\ UNCHANGED <<localStorage, sessionStorage, env>>

\* handleSupabaseCallback after getSession.
DirectStoreSession(store, resp) ==
  IF resp.status = "ok" /\ resp.access_token # Null
  THEN SetItem(store, "supabase_token", resp.access_token)
  ELSE store

DirectCallbackReturn ==
  /\ sd.kind = "handleSupabaseCallback"
  /\ sd.resp # Pending
  /\ localStorage' = DirectStoreSession(localStorage, sd.resp)
  /\ sdResult' = IF sd.resp.status = "ok" /\ sd.resp.access_token # Null
                 THEN SdResolved(sd.resp.access_token)
                 ELSE SdRejected
  /\ sd' = SdIdle
  /\ UNCHANGED <<sessionStorage, page, search, hash, auth, gc, gcReq, igl,
                 reg, env, sc, eh, sbReq, lo, lg, events, gu>>

\* signOut after the provider's signOut: on an error the function throws
\* before the removeItem, and its catch logs and rethrows.
DirectSignOutStore(store, resp) ==
  IF resp.status = "error" THEN store ELSE RemoveItem(store, "supabase_token")

DirectSignOutResult(resp) ==
  IF resp.status = "error" THEN SdRejected ELSE SdResolved(Null)

DirectSignOutReturn ==
  /\ sd.kind = "signOut"
  /\ sd.resp # Pending
  /\ localStorage' = DirectSignOutStore(localStorage, sd.resp)
  /\ sdResult' = DirectSignOutResult(sd.resp)
  /\ sd' = SdIdle
  /\ UNCHANGED <<sessionStorage, page, search, hash, auth, gc, gcReq, igl,
                 reg, env, sc, eh, sbReq, lo, lg, events, gu>>

\* getCurrentUser of supabaseDirect after getUser.
DirectGetUserReturn ==
  /\ sd.kind = "getCurrentUser"
  /\ sd.resp # Pending
  /\ sdResult' = IF sd.resp.status = "error" THEN SdRejected ELSE SdResolved(sd.resp.user.id)
  /\ sd' = SdIdle
  /\ UNCHANGED <<localStorage, sessionStorage, page, search, hash, auth, gc, gcReq, igl,
                 reg, env, sc, eh, sbReq, lo, lg, events, gu>>

NextDirect ==
  \/ DirectCall
  \/ ProviderAnswersDirect
  \/ DirectSignInReturn
  \/ DirectCallbackReturn
  \/ DirectSignOutReturn
  \/ DirectGetUserReturn

\* ---------------------------------------------------------------- specifications

NextCode ==
  \/ RegisterGoogleLogin
  \/ ProbeGoogleOAuth
  \/ BackendAnswersAuthorize
  \/ InitiateGoogleLoginReturn
  \/ ProbeGoogleOAuthReturn
  \/ ArriveGoogleCallback
  \/ GCHandleCallback
  \/ BackendAnswersExchange
  \/ GCExchangeReturn

NextImplicit ==
  \/ ArriveSupabaseCallback
  \/ ArriveRoot
  \/ SCHandleCallback
  \/ SCAfterImport
  \/ EHHandleCallback
  \/ EHAfterImport
  \/ SBAfterSetSession
  \/ ProviderAnswersGetUser
  \/ SCAfterGetUser
  \/ EHAfterGetUser

NextSession ==
  \/ CheckAuthStatus
  \/ NavbarLink
  \/ NavbarHandleLogoutSync
  \/ NavbarHandleLogoutAsync
  \/ LogoutAfterImport
  \/ ProviderAnswersSignOut
  \/ LogoutAfterSignOut
  \/ LoginSubmit
  \/ BackendAnswersToken
  \/ LoginReturn

\* The user opens the application at /login (or reloads it there).
OpenLogin ==
  /\ LoadPage("login", NoSearch, NoHash)
  /\ UNCHANGED <<localStorage, sessionStorage, env>>

Next == NextCode \/ NextImplicit \/ NextSession \/ NextDirect \/ OpenLogin

\* The whole program in one tab.  Its state space is the product of everything
\* that can be in flight at once, so the claims are checked under the
\* specifications below: each takes the operations of one flow together with
\* the operations on the session that run beside it.
Spec == Init /\ [][Next]_vars

\* The authorization-code flow, password login and logout.  The Supabase
\* settings are read by no operation here.
NextCodeFlow ==
  \/ NextCode \/ OpenLogin \/ CheckAuthStatus \/ NavbarLink
  \/ NavbarHandleLogoutSync \/ NavbarHandleLogoutAsync
  \/ LoginSubmit \/ BackendAnswersToken \/ LoginReturn

InitCode == Init /\ env.nextPublic /\ env.reactApp

SpecCode == InitCode /\ [][NextCodeFlow]_vars

\* The implicit flow and logout.
NextImplicitFlow ==
  \/ NextImplicit \/ OpenLogin \/ CheckAuthStatus \/ NavbarLink
  \/ NavbarHandleLogoutSync \/ NavbarHandleLogoutAsync
  \/ LogoutAfterImport \/ ProviderAnswersSignOut \/ LogoutAfterSignOut

SpecImplicit == Init /\ [][NextImplicitFlow]_vars

\* The supabaseDirect service, which keeps its own key and its own client.
InitDirect == Init /\ env.nextPublic /\ env.reactApp /\ env.authService = "sync"

NextDirectService == NextDirect \/ OpenLogin \/ NavbarLink \/ CheckAuthStatus

SpecDirect == InitDirect /\ [][NextDirectService]_vars

\* The two callback components with what leads to them, and logout.
NextCallbacks ==
  \/ OpenLogin \/ CheckAuthStatus \/ NavbarLink
  \/ RegisterGoogleLogin \/ BackendAnswersAuthorize \/ InitiateGoogleLoginReturn
  \/ ArriveGoogleCallback \/ GCHandleCallback \/ BackendAnswersExchange \/ GCExchangeReturn
  \/ ArriveSupabaseCallback \/ SCHandleCallback \/ SCAfterImport \/ SBAfterSetSession
  \/ ProviderAnswersGetUser \/ SCAfterGetUser
  \/ NavbarHandleLogoutSync \/ NavbarHandleLogoutAsync
  \/ LogoutAfterImport \/ ProviderAnswersSignOut \/ LogoutAfterSignOut

InitCallbacks == Init /\ env.reactApp

SpecCallbacks == InitCallbacks /\ [][NextCallbacks]_vars

\* Every operation of this tab that stores a token, with what leads to it.
NextSave ==
  \/ OpenLogin \/ NavbarLink
  \/ LoginSubmit \/ BackendAnswersToken \/ LoginReturn
  \/ RegisterGoogleLogin \/ BackendAnswersAuthorize \/ InitiateGoogleLoginReturn
  \/ ArriveGoogleCallback \/ GCHandleCallback \/ BackendAnswersExchange \/ GCExchangeReturn
  \/ ArriveSupabaseCallback \/ SCHandleCallback \/ SCAfterImport \/ SBAfterSetSession
  \/ ProviderAnswersGetUser \/ SCAfterGetUser

InitSave == Init /\ env.nextPublic /\ env.reactApp /\ env.authService = "sync"

SpecSave == InitSave /\ [][NextSave]_vars

\* The session record of the implicit handlers, over more fragments.
ExpiresInTexts == {"7200", "0", "00", "12abc", "abc", "-5", " 60", "", Null}

SessionFragments ==
  { Fragment("tokA", r, e, t) :
      r \in {"ref1", Null}, e \in ExpiresInTexts, t \in {"bearer", "mac", "", Null} }

\* The browser arrives at one of the two implicit callbacks, with a token in
\* the fragment and no error parameters.
ArriveImplicitCallback ==
  /\ \E route \in {"supabase", "root"}, f \in SessionFragments :
       LoadPage(route, NoSearch, f)
  /\ UNCHANGED <<localStorage, sessionStorage, env>>

NextBuildSession ==
  \/ ArriveImplicitCallback
  \/ SCHandleCallback \/ SCAfterImport
  \/ EHHandleCallback \/ EHAfterImport

InitSession == Init /\ env.nextPublic /\ env.reactApp /\ env.authService = "sync"

SpecSession == InitSession /\ [][NextBuildSession]_vars

\* The authorization-code flow with runs of the callback's effect repeated.
NextRerun == NextCode \/ NavbarLink \/ GCEffectRerun

SpecRerun == InitCode /\ [][NextRerun]_vars

\* The two callbacks under fair scheduling: a handler that is scheduled runs,
\* a pending call is answered, and a continuation whose call was answered
\* resumes.  The user's steps (loading an address, following a link) are under
\* no obligation.
NextLive ==
  \/ ArriveGoogleCallback \/ GCHandleCallback \/ BackendAnswersExchange \/ GCExchangeReturn
  \/ ArriveSupabaseCallback \/ SCHandleCallback \/ SCAfterImport \/ SBAfterSetSession
  \/ ProviderAnswersGetUser \/ SCAfterGetUser

LiveFairness ==
  /\ WF_vars(GCHandleCallback)
  /\ WF_vars(BackendAnswersExchange)
  /\ WF_vars(GCExchangeReturn)
  /\ WF_vars(SCHandleCallback)
  /\ WF_vars(SCAfterImport)
  /\ WF_vars(SBAfterSetSession)
  /\ WF_vars(ProviderAnswersGetUser)
  /\ WF_vars(SCAfterGetUser)

\* The browser is at the provider: initiateGoogleLogin has stored a state and
\* left the application, or the address of the provider was opened directly.
InitLive ==
  /\ localStorage = EmptyLocalStorage
  /\ sessionStorage \in
       {EmptySessionStorage}
         \cup { IGLStore(EmptySessionStorage, [status |-> "ok", state |-> st]) : st \in States }
  /\ page = "external"
  /\ search = NoSearch
  /\ hash = NoHash
  /\ auth = AuthMounted
  /\ gc = GCUnmounted
  /\ gcReq = NoReq
  /\ igl = IglIdle
  /\ reg = RegMounted
  /\ env \in [nextPublic : BOOLEAN, reactApp : {TRUE}, authService : {"sync"}]
  /\ sc = SCUnmounted
  /\ eh = FALSE
  /\ sbReq = NoSbReq
  /\ lo = LoIdle
  /\ lg = NoReq
  /\ sd = SdIdle
  /\ sdResult = SdNoResult
  /\ events = <<>>
  /\ gu = GuIdle

SpecLive == InitLive /\ [][NextLive]_vars /\ LiveFairness

\* ---------------------------------------------------------------- dashboard

ErrNoToken == "No token found. Please login again."

\* The header value `Bearer ${token}`.
Bearer(token) == [scheme |-> "Bearer", credentials |-> token]

\* Dashboard has rendered and its effect, fetchUserData, is due.
GuMounted == [kind |-> "mounted"]

\* GetCurrentUserStart without the check of the token.
GetCurrentUserStart_NoCheck(store) ==
  [kind |-> "get", authorization |-> Bearer(GetItem(store, "token")), resp |-> Pending]

\* getCurrentUser up to its await: without a token it throws, and its catch
\* rethrows the message; with one it sends GET /users/me with the token read.
GetCurrentUserStart(store) ==
  LET token == GetItem(store, "token")
  IN IF ~Truthy(token)
     THEN [kind |-> "rejected", message |-> ErrNoToken]
     ELSE [kind |-> "get", authorization |-> Bearer(token), resp |-> Pending]

\* Answers of the backend to GET /users/me.
MeResponses ==
  { [status |-> "ok", username |-> "ann"],
    [status |-> "error", detail |-> "Could not validate credentials"] }

\* The Navbar's link to /dashboard, shown when a token is stored: the route
\* guard lets the render through and Dashboard mounts.
NavbarDashboardLink ==
  /\ page \notin {"external", "dashboard"}
  /\ GetItem(localStorage, "token") # Null
  /\ gu.kind # "get"
  /\ NavigateTo("dashboard")
  /\ gu' = GuMounted
  /\ UNCHANGED <<localStorage, sessionStorage, auth, gcReq, igl, env, sbReq, lo, lg,
                 sd, sdResult, events>>

\* Dashboard's effect: fetchUserData calls getCurrentUser.
FetchUserData ==
  /\ page = "dashboard"
  /\ gu = GuMounted
  /\ gu' = GetCurrentUserStart(localStorage)
  /\ UNCHANGED <<localStorage, sessionStorage, page, search, hash, auth, gc, gcReq, igl,
                 reg, env, sc, eh, sbReq, lo, lg, sd, sdResult, events>>

BackendAnswersMe ==
  /\ gu.kind = "get"
  /\ gu.resp = Pending
  /\ \E r \in MeResponses : gu' = [gu EXCEPT !.resp = r]
  /\ UNCHANGED <<localStorage, sessionStorage, page, search, hash, auth, gc, gcReq, igl,
                 reg, env, sc, eh, sbReq, lo, lg, sd, sdResult, events>>

\* getCurrentUser after the GET returned: response.data, or the message thrown.
GetCurrentUserReturn ==
  /\ gu.kind = "get"
  /\ gu.resp # Pending
  /\ gu' = IF gu.resp.status = "ok"
           THEN [kind |-> "resolved", data |-> gu.resp.username]
           ELSE [kind |-> "rejected", message |-> gu.resp.detail]
  /\ UNCHANGED <<localStorage, sessionStorage, page, search, hash, auth, gc, gcReq, igl,
                 reg, env, sc, eh, sbReq, lo, lg, sd, sdResult, events>>

\* The other tabs' actions are defined below; the specification of the
\* dashboard follows them.

\* ---------------------------------------------------------------- other tabs

\* localStorage is shared by every tab of the origin.  Another tab runs the
\* same application; of it only the writes to localStorage are modelled, each
\* as the run of the code between two awaits that performs it.

\* A value under supabase_session that is not the JSON text of a session.
CorruptSession == [kind |-> "corrupt"]

MaxEvents == 2

StorageKeys == <<"supabase_session", "token", "supabase_token">>

\* The storage events the browser sends to the other documents of the origin:
\* one for each key whose value changed.
RECURSIVE ChangedKeys(_, _, _)
ChangedKeys(old, new, i) ==
  IF i > Len(StorageKeys) THEN <<>>
  ELSE (IF old[StorageKeys[i]] # new[StorageKeys[i]] THEN <<StorageKeys[i]>> ELSE <<>>)
         \o ChangedKeys(old, new, i + 1)

\* AuthProvider's second mount effect has registered handleStorageChange.
Listening == page # "external" /\ ~auth.loading

\* A write of another tab: the storage changes and this tab's listener, when
\* there is one, gets the events.
PeerWrites(newStore) ==
  /\ localStorage' = newStore
  /\ events' = IF Listening THEN events \o ChangedKeys(localStorage, newStore, 1) ELSE events
  /\ Len(events') <= MaxEvents
  /\ UNCHANGED <<sessionStorage, page, search, hash, auth, gc, gcReq, igl, reg, env, sc,
                 eh, sbReq, lo, lg, sd, sdResult, gu>>

\* What a completed logout has removed, for the logout the build uses.
LogoutRemoves(store) ==
  IF env.authService = "sync" THEN LogoutSync(store)
  ELSE IF GetItem(store, "supabase_session") # NoSession THEN LogoutRemoveBoth(store)
  ELSE RemoveItem(store, "token")

\* The other tab's Navbar.handleLogout has run to the end of logout.
PeerLogout ==
  /\ GetItem(localStorage, "token") # Null
  /\ PeerWrites(LogoutRemoves(localStorage))

\* The other tab's login (or handleGoogleCallback) has stored a token.
PeerLoginReturn ==
  \E r \in TokenResponses :
    /\ r.status = "ok"
    /\ PeerWrites(LoginStore(localStorage, r))

\* The other tab's implicit handler has stored a session and its token.
PeerSupabaseReturn ==
  \E f \in Fragments, now \in Times :
    /\ ~NoAccessTokenIn(f)
    /\ PeerWrites(SBPersist(localStorage, BuildSession(f, now), "ok"))

\* Something else than this application (another script of the origin, the
\* user's developer tools) leaves an unreadable value under supabase_session.
ForeignWrite ==
  /\ GetItem(localStorage, "supabase_session") # CorruptSession
  /\ PeerWrites(SetItem(localStorage, "supabase_session", CorruptSession))

\* StorageChangeResult without setUser(null).
StorageChangeResult_NoUserReset(a, store) ==
  [a EXCEPT !.isAuthenticated = StoredAuth(store)]

\* handleStorageChange's recomputation for the keys token and supabase_session.
StorageChangeResult(a, store) ==
  IF StoredAuth(store)
  THEN [a EXCEPT !.isAuthenticated = TRUE]
  ELSE [a EXCEPT !.isAuthenticated = FALSE, !.user = NoUser]

\* AuthProvider.handleStorageChange, run for the oldest queued event.
HandleStorageChange ==
  /\ events # <<>>
  /\ auth' = IF Head(events) \in {"token", "supabase_session"}
             THEN StorageChangeResult(auth, localStorage)
             ELSE auth
  /\ events' = Tail(events)
  /\ UNCHANGED <<localStorage, sessionStorage, page, search, hash, gc, gcReq, igl, reg,
                 env, sc, eh, sbReq, lo, lg, sd, sdResult, gu>>

NextPeer ==
  \/ PeerLogout
  \/ PeerLoginReturn
  \/ PeerSupabaseReturn
  \/ ForeignWrite

\* This tab's SupabaseCallback and logout, beside the writes of another tab.
NextTabs ==
  \/ OpenLogin \/ CheckAuthStatus \/ NavbarLink
  \/ ArriveSupabaseCallback \/ SCHandleCallback \/ SCAfterImport \/ SBAfterSetSession
  \/ ProviderAnswersGetUser \/ SCAfterGetUser
  \/ NavbarHandleLogoutSync \/ NavbarHandleLogoutAsync
  \/ LogoutAfterImport \/ ProviderAnswersSignOut \/ LogoutAfterSignOut
  \/ NextPeer
  \/ HandleStorageChange

InitTabs == Init /\ env.nextPublic /\ env.reactApp

SpecTabs == InitTabs /\ [][NextTabs]_vars

\* The dashboard: password login, the Navbar's links and logout, another tab's
\* login and logout, and Dashboard's call of getCurrentUser.
NextUser ==
  \/ OpenLogin \/ NavbarLink \/ NavbarDashboardLink
  \/ LoginSubmit \/ BackendAnswersToken \/ LoginReturn
  \/ NavbarHandleLogoutSync
  \/ PeerLogout \/ PeerLoginReturn
  \/ FetchUserData \/ BackendAnswersMe \/ GetCurrentUserReturn

InitUser == Init /\ env.nextPublic /\ env.reactApp /\ env.authService = "sync"

SpecUser == InitUser /\ [][NextUser]_vars

\* ---------------------------------------------------------------- steps

\* The step in which GoogleCallback.handleCallback runs from its start: the
\* mounted component's pending effect is consumed on the same page.
GCHandlerRuns == page = "google" /\ page' = "google" /\ gc.effect /\ ~gc'.effect

\* The stored state token, before and after a step.
StoredState == GetItem(sessionStorage, "google_oauth_state")
StoredStateAfter == GetItem(sessionStorage', "google_oauth_state")

\* The callback URL carries code and state and no error parameter.
CodeCallback == Truthy(search.code) /\ Truthy(search.state) /\ ~Truthy(search.error)

\* A step that sends an exchange request (POST /google/callback).
ExchangeSent == gcReq.kind # "exchange" /\ gcReq'.kind = "exchange"

\* The step in which handleGoogleCallback resumes with the backend's answer.
ExchangeResumes == gcReq.kind = "exchange" /\ gcReq' = DoneReq

\* ---------------------------------------------------------------- claims

\* C1: an exchange request is sent only in a handler invocation that compared
\* the received state with the stored state token and found them equal: in
\* every step that sends an exchange request the handler is running, a state
\* token is stored, the URL's state equals it, and the request carries it.
C1_ExchangeOnlyAfterStateCheck ==
  [][ExchangeSent =>
        /\ GCHandlerRuns
        /\ Truthy(StoredState)
        /\ search.state = StoredState
        /\ gcReq'.state = StoredState]_vars

C1_Witness ==
  /\ gcReq.kind = "exchange"
  /\ gcReq.state = gcReq.storedState
  /\ gcReq.resp = Pending

\* C2: a code callback whose state differs from the stored state token fails
\* with the state-mismatch error and sends no exchange request.
C2_StateMismatchFails ==
  [][(GCHandlerRuns /\ CodeCallback /\ Truthy(StoredState) /\ search.state # StoredState) =>
        /\ gc'.error = ErrStateMismatch
        /\ ~gc'.loading
        /\ gcReq'.kind = "none"
        /\ UNCHANGED <<gcReq, localStorage, page>>]_vars

C2_Witness ==
  /\ page = "google"
  /\ gc.error = ErrStateMismatch
  /\ CodeCallback
  /\ Truthy(StoredState)
  /\ search.state # StoredState
  /\ gcReq.kind = "none"

\* C3: the state token is single-use: after a validation of a received state
\* against the stored token, successful or not, google_oauth_state is absent.
C3_StateTokenConsumed ==
  [][(GCHandlerRuns /\ CodeCallback) => StoredStateAfter = Null]_vars

\* C4: a code callback carrying code and state while no state token is stored
\* fails with the missing-stored-state error, ends Failed and sends no exchange
\* request.
C4_MissingStoredStateFails ==
  [][(GCHandlerRuns /\ CodeCallback /\ ~Truthy(StoredState)) =>
        /\ gc'.error = ErrMissingStoredState
        /\ ~gc'.loading
        /\ gcReq'.kind = "none"
        /\ UNCHANGED <<gcReq, localStorage, page>>]_vars

C4_Witness ==
  /\ page = "google"
  /\ gc.error = ErrMissingStoredState
  /\ ~gc.loading
  /\ CodeCallback
  /\ ~Truthy(StoredState)
  /\ gcReq.kind = "none"

\* C9: when the exchange succeeds at the transport level but the answer has no
\* usable access_token, the attempt ends Failed (an error is shown, loading is
\* over), there is no navigation to the dashboard and no token is stored.
C9_NoSessionReturnedFails ==
  [][(ExchangeResumes /\ page = "google" /\ gcReq.resp.status = "ok"
        /\ ~Truthy(gcReq.resp.access_token)) =>
        /\ page' = "google"
        /\ gc'.error # ""
        /\ ~gc'.loading
        /\ localStorage' = localStorage]_vars

\* The step in which SupabaseCallback.handleCallback runs from its start.
SCHandlerRuns == page = "supabase" /\ page' = "supabase" /\ sc.effect /\ ~sc'.effect

\* The step in which SupabaseErrorHandler.handleOAuthCallback runs from its
\* start and stays on the page.
EHHandlerRuns == page = "root" /\ page' = "root" /\ eh /\ ~eh'

\* The fragment is missing or has no usable access token.
NoAccessToken(fragment) == fragment = NoHash \/ ~Truthy(fragment.access_token)

\* What the root route shows after a step.
EHViewAfter == EHView(search'.error, search'.error_description, hash')

\* C5 as stated: an implicit callback without a fragment, or whose fragment
\* lacks access_token, ends Failed (an error is shown, nothing is loading) and
\* writes neither supabase_session nor token, in SupabaseCallback and in
\* SupabaseErrorHandler.
C5_MissingTokenFailsInBoth ==
  [][/\ (SCHandlerRuns /\ ~Truthy(search.error) /\ NoAccessToken(hash)) =>
          /\ sc'.error = (IF hash = NoHash THEN ErrNoOAuthData ELSE ErrNoAccessToken)
          /\ ~sc'.loading
          /\ sbReq' = NoSbReq
          /\ localStorage' = localStorage
     /\ (EHHandlerRuns /\ NoAccessToken(hash)) =>
          /\ EHViewAfter = "error"
          /\ sbReq' = NoSbReq
          /\ localStorage' = localStorage]_vars

\* What the code does in the case of C5: neither key is written and no call is
\* started in either handler.  SupabaseCallback ends Failed with the error of
\* the case.  SupabaseErrorHandler returns without reporting anything: the
\* address is kept, and its view is the error card, or the loading card when
\* the fragment has an empty access_token and there are no error parameters.
C5_MissingTokenStoresNothing ==
  [][/\ (SCHandlerRuns /\ ~Truthy(search.error) /\ NoAccessToken(hash)) =>
          /\ sc'.error = (IF hash = NoHash THEN ErrNoOAuthData ELSE ErrNoAccessToken)
          /\ ~sc'.loading
          /\ sbReq' = NoSbReq
          /\ localStorage' = localStorage
     /\ (EHHandlerRuns /\ NoAccessToken(hash)) =>
          /\ sbReq' = NoSbReq
          /\ localStorage' = localStorage
          /\ UNCHANGED <<page, search, hash, auth>>
          /\ EHViewAfter =
               (IF hash # NoHash /\ hash.access_token = "" /\ ~Truthy(search.error)
                     /\ ~Truthy(search.error_description)
                THEN "loading" ELSE "error")]_vars

\* The step in which an implicit handler resumes with getUser's answer.
GetUserResumes == sbReq.kind = "getUser" /\ sbReq.resp # Pending /\ sbReq'.kind # "getUser"

GetUserFailed == sbReq.resp.status = "error" \/ sbReq.resp.user = NoUser

\* C6: when getUser returns an error or no user, the attempt fails and the
\* session built so far is discarded: nothing is written to localStorage, the
\* dashboard is not opened, and SupabaseCallback shows an error.  (The step
\* may also be a page load that abandons the call; it too writes nothing.)
C6_IdentityFailureDiscardsSession ==
  [][(GetUserResumes /\ GetUserFailed) =>
        /\ localStorage' = localStorage
        /\ page' # "dashboard"
        /\ (sbReq' = DoneReq /\ sbReq.by = "sc" /\ page = "supabase") =>
             (sc'.error \in {ErrUserLookup, ErrNoUser} /\ ~sc'.loading /\ page' = "supabase")]_vars

C6_Witness ==
  /\ page = "supabase"
  /\ sbReq = DoneReq
  /\ sc.error = ErrNoUser
  /\ ~sc.loading
  /\ GetItem(localStorage, "token") = Null
  /\ GetItem(localStorage, "supabase_session") = NoSession

\* The step in which a logout returns to its caller.
LogoutCompletes == lo.kind # "done" /\ lo'.kind = "done"

\* C7: after a logout completes both persisted session keys are absent, for
\* every logout of the sources and whatever the remote sign-out did.
C7_LogoutClearsSession ==
  [][LogoutCompletes =>
        /\ GetItem(localStorage', "token") = Null
        /\ GetItem(localStorage', "supabase_session") = NoSession]_vars

\* The async logout alone does clear both keys when it completes.
C7_AsyncLogoutClearsSession ==
  [][(LogoutCompletes /\ env.authService = "async") =>
        /\ GetItem(localStorage', "token") = Null
        /\ GetItem(localStorage', "supabase_session") = NoSession]_vars

\* The step in which a sign-out whose remote call failed returns.
DirectSignOutFails == sd.kind = "signOut" /\ sd.resp # Pending /\ sd.resp.status = "error"
                        /\ sd'.kind = "none" /\ sdResult'.kind # "none"
AsyncLogoutFails == lo.kind = "signOut" /\ lo.resp # Pending /\ lo.resp.status # "ok"
                      /\ lo'.kind = "done"

\* C8: a failure of the provider's signOut is swallowed: every sign-out
\* operation still removes the locally stored token(s) and returns without an
\* error to its caller.
C8_SignOutFailureSwallowed ==
  [][/\ DirectSignOutFails =>
          /\ GetItem(localStorage', "supabase_token") = Null
          /\ sdResult'.kind = "resolved"
     /\ AsyncLogoutFails =>
          /\ GetItem(localStorage', "token") = Null
          /\ GetItem(localStorage', "supabase_session") = NoSession]_vars

\* The async logout alone does swallow the failure.
C8_AsyncLogoutSwallows ==
  [][AsyncLogoutFails =>
          /\ GetItem(localStorage', "token") = Null
          /\ GetItem(localStorage', "supabase_session") = NoSession]_vars

\* The step in which login resumes with the backend's answer.
LoginResumes == lg.kind = "token" /\ lg'.kind = "done"

StorageEventHandled == events # <<>> /\ events' = Tail(events) /\ ~auth'.loading

SessionKeys == {"token", "supabase_session"}

\* C11: when another tab has cleared the session (both keys are absent) and
\* this tab, without reloading, handles the storage event of one of the two
\* keys, its AuthProvider reports isAuthenticated = false and user = null
\* after that one handler run.
C11_PeerLogoutObserved ==
  [][(StorageEventHandled /\ Head(events) \in SessionKeys /\ ~StoredAuth(localStorage)) =>
        /\ ~auth'.isAuthenticated
        /\ auth'.user = NoUser
        /\ UNCHANGED <<page, localStorage>>]_vars

\* The dashboard is entered only with the context logged in, and this tab's own
\* logout leaves it: here the listener has logged the context out.
C11_Witness ==
  /\ page = "dashboard"
  /\ ~auth.loading
  /\ ~auth.isAuthenticated
  /\ auth.user = NoUser
  /\ sbReq = DoneReq
  /\ ~StoredAuth(localStorage)
  /\ events = <<>>

\* An implicit handler has parsed the fragment and gone on (to an await, to
\* its end or into its catch).
ImplicitHandlerPastParse == page \in {"supabase", "root"} /\ sbReq.kind # "none"

\* C12: once an implicit handler has parsed the fragment, the address no longer
\* carries the access token, whether the attempt then succeeds or fails.
C12_FragmentClearedAfterParse == ImplicitHandlerPastParse => NoAccessTokenIn(hash)

\* C13: GoogleCallback checks the parameters in a fixed order: an error
\* parameter gives the provider error even with code and state present; else a
\* missing code gives MissingCode; else a missing state gives MissingState; else
\* the handler goes on to the stored state.  In each failing case the outcome
\* does not depend on the stored state token, which is left alone, and no
\* exchange is sent.
C13_ParsePrecedence ==
  [][GCHandlerRuns =>
       LET failed(text) == /\ gc'.error = text
                           /\ ~gc'.loading
                           /\ gcReq' = NoReq
                           /\ UNCHANGED <<sessionStorage, localStorage, page>>
       IN IF Truthy(search.error) THEN failed(ErrProvider)
          ELSE IF ~Truthy(search.code) THEN failed(ErrMissingCode)
          ELSE IF ~Truthy(search.state) THEN failed(ErrMissingState)
          ELSE \/ gc'.error \in {ErrMissingStoredState, ErrStateMismatch}
               \/ /\ gcReq'.kind = "exchange"
                  /\ gcReq'.code = search.code
                  /\ gcReq'.state = search.state]_vars

C13_Witness ==
  /\ page = "google"
  /\ gc.error = ErrProvider
  /\ ~gc.loading
  /\ Truthy(search.error)
  /\ Truthy(search.code)
  /\ search.state = StoredState
  /\ Truthy(StoredState)
  /\ gcReq = NoReq

\* The step in which checkAuthStatus runs at the mount of AuthProvider.
MountCheck == auth.loading /\ ~auth'.loading

\* Storage holds no token and an unreadable value under supabase_session.
OnlyCorruptSession ==
  /\ GetItem(localStorage, "token") = Null
  /\ GetItem(localStorage, "supabase_session") = CorruptSession

\* C14: an unreadable supabase_session with no token counts as no session:
\* after checkAuthStatus, and after handleStorageChange for one of the two
\* keys, AuthProvider reports isAuthenticated = false.
C14_CorruptSessionIsNoSession ==
  [][(OnlyCorruptSession /\ (MountCheck \/ (StorageEventHandled /\ Head(events) \in SessionKeys))) =>
        ~auth'.isAuthenticated]_vars

\* The step in which an implicit handler stores the session it established.
ImplicitSessionStored ==
  /\ GetUserResumes
  /\ ~GetUserFailed
  /\ GetItem(localStorage', "token") = sbReq.session.access_token
  /\ GetItem(localStorage', "supabase_session") # NoSession

\* C15: the record an implicit handler writes under supabase_session is the
\* merged record: the token fields together with the id and the email of the
\* user that getUser returned.
C15_PersistedRecordIsMerged ==
  [][ImplicitSessionStored =>
       LET record == GetItem(localStorage', "supabase_session")
       IN /\ record.access_token = sbReq.session.access_token
          /\ {"id", "email"} \subseteq DOMAIN record
          /\ record.id = sbReq.resp.user.id
          /\ record.email = sbReq.resp.user.email]_vars

\* C16: when the code flow establishes a session (the exchange returned a
\* token, which is stored, and the dashboard is opened), AuthProvider reports
\* isAuthenticated = true.
C16_EstablishedNotifies ==
  [][(ExchangeResumes /\ gcReq.resp.status = "ok" /\ Truthy(gcReq.resp.access_token)) =>
        /\ GetItem(localStorage', "token") = gcReq.resp.access_token
        /\ auth'.isAuthenticated]_vars

\* What does hold: SupabaseCallback logs the context in when it establishes.
C16_SupabaseCallbackNotifies ==
  [][(GetUserResumes /\ ~GetUserFailed /\ sbReq.by = "sc" /\ sbReq' = DoneReq) =>
        /\ auth'.isAuthenticated
        /\ auth'.user = SCUserData(sbReq.resp.user)]_vars

\* C17: after a logout performed in this tab, this tab's AuthProvider reports
\* isAuthenticated = false and user = null.
C17_LogoutNotifies ==
  [][LogoutCompletes => (~auth'.isAuthenticated /\ auth'.user = NoUser)]_vars

\* A step that constructs AuthProvider anew: a page load, after which nothing
\* of the old page is left.
NewMount ==
  /\ auth' = AuthMounted
  /\ gcReq' = NoReq
  /\ sbReq' = NoSbReq
  /\ lo' = LoIdle
  /\ lg' = NoReq
  /\ events' = <<>>

\* C18: AuthProvider mounts with loading = true; loading becomes false in the
\* one step of checkAuthStatus, which reads storage only and waits for no
\* call; and loading does not return to true within that mount, whatever
\* login, logout or storage event follows.
C18_LoadingFalseOnce ==
  [][/\ NewMount => auth'.loading
     /\ MountCheck =>
          /\ auth' = CheckAuthStatusResult(auth, localStorage)
          /\ UNCHANGED <<localStorage, sessionStorage, page, gcReq, sbReq, lo, lg, igl, events>>
     /\ (~auth.loading /\ auth'.loading) => NewMount
     /\ (~auth.loading /\ ~NewMount) => ~auth'.loading]_vars

\* After a login of the context, a logout and a storage event in one mount,
\* loading is still false.
C18_Witness ==
  /\ ~auth.loading
  /\ auth.user # NoUser
  /\ lo.kind = "done"
  /\ sbReq = DoneReq
  /\ events # <<>>

\* A callback component shows the error of a failed attempt.
GCFailed == page = "google" /\ ~gc.loading /\ gc.error # ""
SCFailed == page = "supabase" /\ ~sc.loading /\ sc.error # ""

\* C19: a failed attempt stays failed.  While the callback component of a
\* failed attempt is shown, no run of its handler is scheduled, and for as
\* long as the user does not leave the page or load a callback anew, the
\* error stays as it is, no exchange or identity fetch is started and nothing
\* is written to storage.
C19_FailedIsTerminal ==
  [][/\ GCFailed =>
          /\ ~gc.effect
          /\ gcReq.kind \in {"none", "done"}
          /\ (page' = "google" /\ ~gc'.effect) =>
                UNCHANGED <<gc, gcReq, sbReq, localStorage, sessionStorage>>
     /\ SCFailed =>
          /\ ~sc.effect
          /\ sbReq.kind \in {"none", "done"}
          /\ (page' = "supabase" /\ ~sc'.effect) =>
                UNCHANGED <<sc, sbReq, gcReq, localStorage, sessionStorage>>]_vars

\* An exchange failed, and the application went on running on that page.
C19_Witness ==
  /\ GCFailed
  /\ gc.error = ErrExchangeFallback
  /\ gcReq = DoneReq
  /\ ~auth.loading
  /\ GetItem(localStorage, "supabase_session") # NoSession

\* C20: whatever the interleaving of the writers of the persisted session
\* (this tab's and another tab's logins), storage never holds a mix of two
\* writers' values: when a session record and a token are both stored, the
\* token is the access_token of that record.
C20_NoMixedSession ==
  LET record == GetItem(localStorage, "supabase_session")
      token == GetItem(localStorage, "token")
  IN (record.kind = "json" /\ token # Null) => token = record.access_token

SCEstablishes == GetUserResumes /\ ~GetUserFailed /\ sbReq.by = "sc" /\ sbReq' = DoneReq

\* The step in which the code exchange establishes a session.
ExchangeEstablishes ==
  ExchangeResumes /\ gcReq.resp.status = "ok" /\ Truthy(gcReq.resp.access_token)

RawTokens == (Tokens \cup {f.refresh_token : f \in (Fragments \ {NoHash})}) \ {Null}

\* C23: AuthProvider's state is isAuthenticated, user and loading, and user is
\* null or a record of display and identity fields: it has no token field and
\* none of its values is an access token or a refresh token.
C23_NotifierHoldsNoTokens ==
  /\ DOMAIN auth = {"isAuthenticated", "user", "loading"}
  /\ auth.isAuthenticated \in BOOLEAN
  /\ auth.loading \in BOOLEAN
  /\ \/ auth.user = NoUser
     \/ /\ DOMAIN auth.user \subseteq {"kind", "username", "email", "auth_method",
                                       "supabase_id", "supabase_email"}
        /\ \A field \in DOMAIN auth.user : auth.user[field] \notin RawTokens

\* The context holds a user while a session with its tokens is stored.
C23_Witness ==
  /\ auth.isAuthenticated
  /\ auth.user # NoUser
  /\ auth.user.auth_method = "supabase"
  /\ GetItem(localStorage, "token") \in Tokens
  /\ GetItem(localStorage, "supabase_session") \notin {NoSession, CorruptSession}
  /\ GetItem(localStorage, "supabase_session").refresh_token \in RawTokens

\* The step in which an implicit handler builds its session record.
SessionBuilt == sbReq.kind = "import" /\ sbReq'.kind = "setSession"

\* C24: the session record built from a fragment has expires_in equal to the
\* integer expires_in parses to when that is a non-zero integer and 3600
\* otherwise (absent, empty, not a number, or 0), expires_at = now + that
\* value, and token_type equal to the received one, or "bearer" when it is
\* absent or empty.
C24_SessionExpiryAndType ==
  [][SessionBuilt =>
       LET f == sbReq.fragment
           session == sbReq'.session
           parsed == ParseInt(f.expires_in)
           expected == IF ~parsed.nan /\ parsed.val # 0 THEN parsed.val ELSE 3600
       IN /\ session.expires_in = expected
          /\ (session.expires_at - expected) \in Times
          /\ session.token_type = (IF f.token_type \in {Null, ""} THEN "bearer"
                                   ELSE f.token_type)
          /\ session.access_token = f.access_token
          /\ f.expires_in = "7200" => expected = 7200
          /\ f.expires_in = " 60" => expected = 60
          /\ f.expires_in = "12abc" => expected = 12
          /\ f.expires_in = "-5" => expected = 0 - 5
          /\ f.expires_in \in {Null, "", "abc", "0", "00"} => expected = 3600]_vars

\* A record built from expires_in=0 and an empty token_type.
C24_Witness ==
  /\ sbReq.kind = "setSession"
  /\ hash # NoHash
  /\ hash.expires_in = "0"
  /\ hash.token_type = ""
  /\ sbReq.session.expires_in = 3600
  /\ sbReq.session.expires_at = 4600 + MaxClock
  /\ sbReq.session.token_type = "bearer"

\* A step that stores a state token where none was stored.
StateIssued == StoredState = Null /\ StoredStateAfter # Null

\* C25: the step that sends the exchange request has validated the stored
\* state against the received one and leaves no stored state; the continuation
\* of the exchange, successful or not, leaves sessionStorage as it is; only a
\* completed initiateGoogleLogin stores a state again; and a callback carrying
\* a code and a state that finds no stored state (the replay of a consumed
\* callback among them) fails with MissingStoredState and sends nothing.
C25_StateConsumedBeforeExchange ==
  [][/\ ExchangeSent =>
          /\ StoredState = search.state
          /\ StoredStateAfter = Null
          /\ gcReq'.resp = Pending
     /\ ExchangeResumes => StoredStateAfter = StoredState
     /\ StateIssued =>
          /\ igl.kind = "initiate"
          /\ igl.resp # Pending
          /\ igl.resp.status = "ok"
     /\ (GCHandlerRuns /\ CodeCallback /\ StoredState = Null) =>
          /\ gc' = FailedWith(ErrMissingStoredState)
          /\ gcReq' = gcReq
          /\ StoredStateAfter = Null]_vars

\* The exchange was sent, failed, and its error is shown: no state is stored.
C25_Witness ==
  /\ gcReq = DoneReq
  /\ GCFailed
  /\ CodeCallback
  /\ gc.error \in {ErrNotConfigured, ErrExchangeFallback}
  /\ StoredState = Null

\* initiateGoogleLogin completes: the browser leaves for the authorization URL.
InitiateCompletes ==
  /\ igl.kind = "initiate"
  /\ igl.resp # Pending
  /\ igl.resp.status = "ok"
  /\ page # "external"
  /\ page' = "external"

\* A call of isGoogleOAuthAvailable ends, by its return or with the page.
ProbeEnds == igl.kind = "probe" /\ igl'.kind # "probe"

\* C26: when initiateGoogleLogin completes, google_oauth_state holds the state
\* that the authorization request returned, whatever was stored before, and the
\* browser has left for the provider; a call of isGoogleOAuthAvailable leaves
\* the stored state as it was, at its answer and at its end.
C26_OneOutstandingState ==
  [][/\ InitiateCompletes =>
          /\ StoredStateAfter = igl.resp.state
          /\ StoredStateAfter \in States
          /\ igl' = IglIdle
     /\ (igl.kind = "probe" \/ ProbeEnds) => StoredStateAfter = StoredState]_vars

\* The browser is at the provider with a state stored for the way back.
C26_Witness ==
  /\ page = "external"
  /\ igl = IglIdle
  /\ StoredState \in States

\* handleGoogleCallback resumes with a failed POST and throws.
ExchangeFails == ExchangeResumes /\ HGCThrows(gcReq.resp)

\* C27: when the exchange fails, nothing is stored, the route does not change
\* (no navigation to the dashboard), the context is not notified, and the
\* callback view, while it is still the one shown, stops loading and shows a
\* non-empty error.
C27_ExchangeErrorFails ==
  [][ExchangeFails =>
       /\ localStorage' = localStorage
       /\ sessionStorage' = sessionStorage
       /\ page' = page
       /\ auth' = auth
       /\ page = "google" =>
            /\ ~gc'.loading
            /\ gc'.error # ""
            /\ gc'.error \in {ErrNotConfigured, ErrExchangeFallback}
            /\ ~gc'.effect]_vars

\* A failed exchange shown on the callback page, with no token stored.
C27_Witness ==
  /\ gcReq = DoneReq
  /\ GCFailed
  /\ gc.error = ErrExchangeFallback
  /\ GetItem(localStorage, "token") = Null

\* A run of the callback handler in a page whose earlier run has already sent
\* the exchange (in flight, or returned).
SecondInvocation == GCHandlerRuns /\ gcReq # NoReq

\* A run of the handler that sends an exchange request or touches the stored
\* state.
SendsExchange == GCHandlerRuns /\ (gcReq' # gcReq \/ StoredStateAfter # StoredState)

\* C28: every exchange request consumes the stored state in the step that sends
\* it (read, compare and delete are one step), a state is stored again only by
\* a completed initiateGoogleLogin, and a further invocation of the handler in
\* a page that has sent its exchange finds no stored state: it sends nothing,
\* leaves the request in flight as it is and ends with MissingStoredState.
C28_OneExchangePerState ==
  [][/\ SendsExchange =>
          /\ StoredState # Null
          /\ StoredState = search.state
          /\ StoredStateAfter = Null
          /\ gcReq = NoReq
          /\ gcReq'.kind = "exchange"
          /\ gcReq'.state = StoredState
     /\ StateIssued => (igl.kind = "initiate" /\ page' = "external" /\ gcReq' = NoReq)
     /\ SecondInvocation =>
          /\ StoredState = Null
          /\ ~SendsExchange
          /\ gcReq' = gcReq
          /\ gc' = FailedWith(ErrMissingStoredState)
          /\ sessionStorage' = sessionStorage]_vars

\* The handler has run again while the exchange of its first run is in flight.
C28_Witness ==
  /\ page = "google"
  /\ gcReq.kind = "exchange"
  /\ gc = FailedWith(ErrMissingStoredState)
  /\ StoredState = Null

\* The logout of this page has completed and nothing has stored a token since.
LoggedOut == lo = LoDone /\ GetItem(localStorage, "token") = Null

\* C29: after a logout has completed, the continuation of a code exchange that
\* was in flight when the logout ran writes no token: the token key stays
\* absent.
C29_NoWriteAfterLogout ==
  [][(LoggedOut /\ ExchangeResumes) => GetItem(localStorage', "token") = Null]_vars

\* The predicate of the route guard and of the Navbar, and the one
\* checkAuthStatus computes from storage.
GuardAuthenticated == GetItem(localStorage, "token") # Null
NotifierAuthenticated ==
  GetItem(localStorage, "token") # Null \/ GetItem(localStorage, "supabase_session") # NoSession

\* C30: in every reachable state the route guard's predicate (token present)
\* equals the predicate the Notifier computes from storage (token or
\* supabase_session present): supabase_session is never present while the
\* token is absent.
C30_PredicatesAgree == GuardAuthenticated = NotifierAuthenticated

\* The step in which a callback view, staying on its page, comes to show an
\* error.
GCFails == page = "google" /\ page' = "google" /\ gc' # gc /\ ~gc'.loading /\ gc'.error # ""
SCFails == page = "supabase" /\ page' = "supabase" /\ sc' # sc /\ ~sc'.loading /\ sc'.error # ""

\* A step of a callback handler or of one of its calls, the route staying as it is.
CallbackStep ==
  /\ page' = page
  /\ (gc' # gc \/ gcReq' # gcReq \/ sc' # sc \/ sbReq' # sbReq)

PersistedKeysUnchanged ==
  /\ GetItem(localStorage', "token") = GetItem(localStorage, "token")
  /\ GetItem(localStorage', "supabase_session") = GetItem(localStorage, "supabase_session")

\* C31: a callback attempt that ends Failed leaves token and supabase_session
\* as they were: the step that ends it Failed writes neither key, and neither
\* does any step of a callback handler before it (the only steps of the
\* handlers that write the keys are the two that establish a session).
C31_FailedLeavesSessionKeys ==
  [][/\ (GCFails \/ SCFails \/ ExchangeFails \/ (GetUserResumes /\ GetUserFailed)) =>
          PersistedKeysUnchanged
     /\ (CallbackStep /\ ~ExchangeEstablishes /\ ~SCEstablishes) =>
          PersistedKeysUnchanged]_vars

\* An exchange failed in a tab that held a session: the session is still there.
C31_Witness ==
  /\ GCFailed
  /\ gcReq = DoneReq
  /\ gc.error = ErrNotConfigured
  /\ GetItem(localStorage, "token") \in Tokens

\* The stages of a callback view that is loading: its handler is scheduled, or
\* a call of its handler is in flight.
GCScheduled == page = "google" /\ gc.effect
GCAwaiting == page = "google" /\ gc.loading /\ gcReq.kind = "exchange"
SCScheduled == page = "supabase" /\ sc.effect
SCAwaiting ==
  /\ page = "supabase"
  /\ sc.loading
  /\ sbReq.kind \in {"import", "setSession", "getUser"}

\* A callback view is loading only while its handler is scheduled or awaits a
\* call, and a view that has stopped loading shows an error.
LoadingHasCause ==
  /\ (page = "google" /\ gc.loading) => (GCScheduled \/ GCAwaiting)
  /\ (page = "supabase" /\ sc.loading) => (SCScheduled \/ (SCAwaiting /\ sbReq.by = "sc"))
  /\ (page = "google" /\ ~gc.loading) => gc.error # ""
  /\ (page = "supabase" /\ ~sc.loading) => sc.error # ""

\* C32: every invocation of a callback handler leaves the loading state when
\* each pending call returns or fails.  A view that is loading has its handler
\* scheduled or a call of it in flight; a scheduled handler runs; a call in
\* flight ends, and with it the loading view: with an error and loading =
\* false, or with the route changed (the dashboard, or wherever the user went
\* meanwhile).
C32_HandlersLeaveLoading ==
  /\ []LoadingHasCause
  /\ GCScheduled ~> ~GCScheduled
  /\ GCAwaiting ~> ~GCAwaiting
  /\ SCScheduled ~> ~SCScheduled
  /\ SCAwaiting ~> ~SCAwaiting

\* SupabaseCallback has ended with the missing-configuration error shown.
C32_Witness ==
  /\ page = "supabase"
  /\ ~sc.loading
  /\ sc.error = ErrConfigMissing
  /\ sbReq = DoneReq

\* The step in which getCurrentUser is called and runs to its await or its throw.
GetCurrentUserCalled == gu = GuMounted /\ gu'.kind \in {"get", "rejected", "resolved"}

\* C33: getCurrentUser called while no token is stored fails with the 'No
\* token found' message and sends no request; called while a token is stored
\* it sends one request whose Authorization header is Bearer followed by the
\* token stored at that moment.  No request is sent in any other way.
C33_GetCurrentUserToken ==
  [][/\ GetCurrentUserCalled =>
          LET token == GetItem(localStorage, "token")
          IN IF token = Null
             THEN gu' = [kind |-> "rejected", message |-> ErrNoToken]
             ELSE /\ gu'.kind = "get"
                  /\ gu'.authorization = [scheme |-> "Bearer", credentials |-> token]
                  /\ gu'.authorization.credentials \in Tokens
                  /\ gu'.resp = Pending
     /\ (gu.kind # "get" /\ gu'.kind = "get") =>
          (GetCurrentUserCalled /\ GetItem(localStorage, "token") # Null)]_vars

\* Dashboard rendered with a token stored, the token was removed before its
\* effect ran, and getCurrentUser failed without a request.
C33_Witness ==
  /\ page = "dashboard"
  /\ gu = [kind |-> "rejected", message |-> ErrNoToken]
  /\ GetItem(localStorage, "token") = Null

====
